---- MODULE Spec2Model ----
(***************************************************************************)
(* Model of the presentational components (PageTitle, Footer, Body) and of *)
(* the plugin configuration of the site.                                   *)
(*                                                                         *)
(* JavaScript values are encoded as follows.  The strings Undefined and    *)
(* Null stand for the values undefined and null where a string is          *)
(* expected.  An object that may be absent is a record with the flag       *)
(* isObject.  A Record<string, string> is the sequence of its              *)
(* <<key, value>> entries in property enumeration order (all keys are      *)
(* non-numeric strings, which enumerate in insertion order).               *)
(***************************************************************************)
EXTENDS Naturals, Integers, Sequences, FiniteSets, TLC

VARIABLES
    year,       \* the calendar year the clock shows (new Date().getFullYear()), as an offset
    cfg,        \* the configuration object handed to every component as props.cfg
    props,      \* per page: the remaining props (fileData, displayClass, children)
    footers,    \* the Footer closures constructed so far: captured opts and css attachment
    pageTitle,  \* the module-level PageTitle component object (its attachments)
    body,       \* the module-level Body component object (its attachments)
    out,        \* the last component call: which component, for which page, when, and its result
    stage,      \* build: per content file, the pipeline stage it is in
    applied,    \* build: per content file, the transformers that have run on it
    emitted,    \* build: per content file, the emitters that have run on it
    invoked,    \* build: per content file, the components invoked for its page
    styled,     \* build: per content file, whether the stylesheets are attached
    region,     \* build: per content file, the fragment each component returned for its page
    mode,       \* style: the colour mode of the reader's page, light or dark
    cssVars,    \* style: the theme colour variables the page defines in this mode
    blob,       \* style: per blob, the keyframe it has reached and its computed style
    cursor,     \* links: per document, how many of its wikilinks have been resolved
    resolved,   \* links: per document, what each resolved wikilink points at
    resp,       \* fetch: what the server answers per endpoint and attempt
    go,         \* fetch: the state of a call of fetchUserDataGo
    trad,       \* fetch: the state of a call of fetchUserDataTraditional
    mon         \* fetch: the state of a call of the monadic fetchUserData

compVars == <<year, cfg, props, footers, pageTitle, body, out>>
buildVars == <<stage, applied, emitted, invoked, styled>>
styleVars == <<mode, cssVars, blob>>
linkVars == <<cursor, resolved>>
fetchVars == <<resp, go, trad, mon>>
vars == <<year, cfg, props, footers, pageTitle, body, out,
          stage, applied, emitted, invoked, styled, region,
          mode, cssVars, blob, cursor, resolved, resp, go, trad, mon>>

----------------------------------------------------------------------------
(* Bounds of the model *)

MaxTick == 1        \* how many times the calendar year may advance
MaxFooters == 2     \* how many times the Footer constructor may be called
MaxLinks == 2       \* how many entries opts.links may have

----------------------------------------------------------------------------
(* JavaScript values *)

Undefined == "#undefined"
Null == "#null"

\* a ?? b
Coalesce(a, b) == IF a = Undefined \/ a = Null THEN b ELSE a

Ok(m) == [ok |-> TRUE, markup |-> m]
Throw(e) == [ok |-> FALSE, error |-> e]

----------------------------------------------------------------------------
(* Inputs *)

Locales == {"en-US", "fr-FR"}
PageTitles == {Undefined, Null, "", "meowbark.dev"}

NoCfg == [isObject |-> FALSE, pageTitle |-> Undefined, locale |-> Undefined]
CfgValues ==
    {NoCfg} \cup
    {[isObject |-> TRUE, pageTitle |-> t, locale |-> l] : t \in PageTitles, l \in Locales}

\* the pages of the site and the props the framework builds for each
Pages == {"index", "posts/a", "posts/deep/b"}

PagesProps ==
    [p \in Pages |->
        CASE p = "index" ->
               [fileData |-> [slug |-> <<"index">>],
                displayClass |-> Undefined,
                children |-> <<"c1", "c2">>]
          [] p = "posts/a" ->
               [fileData |-> [slug |-> <<"posts", "a">>],
                displayClass |-> "mobile-only",
                children |-> <<>>]
          [] OTHER ->
               [fileData |-> [slug |-> <<"posts", "deep", "b">>],
                displayClass |-> "desktop-only",
                children |-> <<"c2", "c1", "c2">>]]

LinkKeys == {"GitHub", "Discord"}
LinkUrl(k) == IF k = "GitHub" THEN "https://github.com/x" ELSE "https://discord.gg/x"

\* the sequences of at most n pairwise different elements of S
SeqsNoDup(S, n) ==
    {s \in UNION {[1..m -> S] : m \in 0..n} :
        \A i, j \in 1..Len(s) : i # j => s[i] # s[j]}

\* a links object: its keys in insertion order and the value of each key
LinksValues ==
    {[keys |-> ks, val |-> [k \in {ks[i] : i \in 1..Len(ks)} |-> LinkUrl(k)]] :
        ks \in SeqsNoDup(LinkKeys, MaxLinks)}

NoLinks == [keys |-> <<>>, val |-> <<>>]

NoOpts == [isObject |-> FALSE, hasLinks |-> FALSE, links |-> NoLinks]
OptsValues ==
    {NoOpts, [isObject |-> TRUE, hasLinks |-> FALSE, links |-> NoLinks]} \cup
    {[isObject |-> TRUE, hasLinks |-> TRUE, links |-> l] : l \in LinksValues}

----------------------------------------------------------------------------
(* Framework helpers the components import *)

\* i18n(locale).propertyDefaults.title
I18nTitle(locale) == IF locale = "fr-FR" THEN "Sans titre" ELSE "Untitled"

\* i18n(locale).components.footer.createdWith
I18nCreatedWith(locale) == IF locale = "fr-FR" THEN "Cree avec" ELSE "Created with"

\* pathToRoot(slug): one ".." per folder above the page, "." for a top-level page
pathToRoot(slug) ==
    IF Len(slug) <= 1 THEN <<".">> ELSE [i \in 1..(Len(slug) - 1) |-> ".."]

\* classNames(displayClass, ...classes): the classes, then displayClass when given
classNames(displayClass, class) ==
    IF displayClass = Undefined THEN <<class>> ELSE <<class, displayClass>>

\* Object.entries(o) of a Record<string, string>: a [key, value] pair per own
\* property, in property order
ObjectEntries(o) == [i \in 1..Len(o.keys) |-> <<o.keys[i], o.val[o.keys[i]]>>]

----------------------------------------------------------------------------
(* Attachments *)

PageTitleCss == "PageTitle.css"
FooterStyle == "styles/footer.scss"
ClipboardStyle == "styles/clipboard.scss"
ClipboardScript == "scripts/clipboard.inline"

GiscusSrc == "https://giscus.app/client.js"
GiscusScript(theme) == [src |-> GiscusSrc, theme |-> theme]

----------------------------------------------------------------------------
(* PageTitle *)

\* PageTitleTitle with || in place of ??: an empty configured title falls back too
PageTitleTitle_or(c) ==
    LET configured == IF c.isObject THEN c.pageTitle ELSE Undefined
    IN  IF configured # Undefined /\ configured # Null /\ configured # "" THEN Ok(configured)
        ELSE IF ~c.isObject THEN Throw("TypeError")
        ELSE Ok(I18nTitle(c.locale))

\* const title = cfg?.pageTitle ?? i18n(cfg.locale).propertyDefaults.title
\* cfg?.pageTitle is undefined for an absent cfg; cfg.locale then throws.
PageTitleTitle(c) ==
    LET configured == IF c.isObject THEN c.pageTitle ELSE Undefined
    IN  IF configured # Undefined /\ configured # Null THEN Ok(configured)
        ELSE IF ~c.isObject THEN Throw("TypeError")
        ELSE Ok(I18nTitle(c.locale))

\* the markup PageTitle returns for props pr and configuration c
PageTitleRender(pr, c) ==
    LET title == PageTitleTitle(c)
    IN  IF ~title.ok THEN title
        ELSE Ok([class |-> classNames(pr.displayClass, "page-title"),
                 blobs |-> <<"yellow", "red", "green">>,
                 img |-> <<"static", "meowbark.webp">>,
                 href |-> pathToRoot(pr.fileData.slug),
                 linkClass |-> pr.displayClass,
                 text |-> title.markup])

----------------------------------------------------------------------------
(* Footer *)

\* const links = opts?.links ?? []
FooterLinks(opts) ==
    IF opts.isObject /\ opts.hasLinks THEN opts.links ELSE NoLinks

\* FooterItems with the pair destructured as [link, text]
FooterItems_swapped(links) ==
    LET entries == ObjectEntries(links)
    IN  [i \in 1..Len(entries) |-> [text |-> entries[i][2], href |-> entries[i][1]]]

\* Object.entries(links).map(([text, link]) => <li><a href={link}>{text}</a></li>)
FooterItems(links) ==
    LET entries == ObjectEntries(links)
    IN  [i \in 1..Len(entries) |-> [text |-> entries[i][1], href |-> entries[i][2]]]

\* the markup the Footer closure over opts returns for props pr, configuration c,
\* when the clock shows year y
FooterRender(opts, pr, c, y) ==
    LET links == FooterLinks(opts)
    IN  IF ~c.isObject THEN Throw("TypeError")
        ELSE Ok([script |-> GiscusScript("preferred_color_scheme"),
                 class |-> Coalesce(pr.displayClass, ""),
                 createdWith |-> I18nCreatedWith(c.locale),
                 year |-> y,
                 items |-> FooterItems(links)])

----------------------------------------------------------------------------
(* Body *)

\* BodyRender with the children rendered after the script, outside the shell
BodyRender_outside(pr) ==
    Ok(<<[tag |-> "div", id |-> "quartz-body", src |-> "", content |-> <<>>],
         [tag |-> "script", id |-> "", src |-> GiscusSrc, content |-> <<"dark_tritanopia">>],
         [tag |-> "div", id |-> "", src |-> "", content |-> pr.children]>>)

\* the markup Body returns for props pr: the shell, then the comment script
BodyRender(pr) ==
    Ok(<<[tag |-> "div", id |-> "quartz-body", src |-> "", content |-> pr.children],
         [tag |-> "script", id |-> "", src |-> GiscusSrc, content |-> <<"dark_tritanopia">>]>>)

----------------------------------------------------------------------------
(* The state after the modules are loaded *)

NoCall == [comp |-> "none", by |-> 0, page |-> "", at |-> 0, result |-> Ok(<<>>)]

InitComponents ==
    /\ year = 0
    /\ cfg \in CfgValues
    /\ props = PagesProps
    /\ footers = <<>>
    /\ pageTitle = [css |-> PageTitleCss]
    /\ body = [css |-> ClipboardStyle, afterDOMLoaded |-> ClipboardScript]
    /\ out = NoCall

\* files of the content folder that lie in a private, a templates and an
\* .obsidian folder
Unlisted == {"private/notes", "posts/templates/post", ".obsidian/app"}

\* the files of the content folder
Sources == Pages \cup Unlisted

\* the path of a content file, by segments
SourcePath(f) ==
    CASE f = "private/notes" -> <<"private", "notes">>
      [] f = "posts/templates/post" -> <<"posts", "templates", "post">>
      [] f = ".obsidian/app" -> <<".obsidian", "app">>
      [] OTHER -> PagesProps[f].fileData.slug

\* no component has filled a region of any page
NoRegions == [f \in Sources |-> [c \in {"PageTitle", "Body", "Footer"} |-> Ok(<<>>)]]

InitBuild ==
    /\ stage = [f \in Sources |-> "source"]
    /\ applied = [f \in Sources |-> <<>>]
    /\ emitted = [f \in Sources |-> <<>>]
    /\ invoked = [f \in Sources |-> {}]
    /\ styled = [f \in Sources |-> FALSE]
    /\ region = NoRegions

\* no page is open in a browser
StyleIdle == mode = "" /\ cssVars = {} /\ blob = <<>>

\* no document is being resolved
LinksIdle == cursor = <<>> /\ resolved = <<>>

\* no request is in flight and no call has been made
FetchIdle == resp = <<>> /\ go = <<>> /\ trad = <<>> /\ mon = <<>>

Init == InitComponents /\ InitBuild /\ StyleIdle /\ LinksIdle /\ FetchIdle

----------------------------------------------------------------------------
(* The clock *)

\* a new calendar year begins
Tick ==
    /\ year < MaxTick
    /\ year' = year + 1
    /\ UNCHANGED <<cfg, props, footers, pageTitle, body, out>>
    /\ UNCHANGED buildVars
    /\ UNCHANGED <<region, styleVars, linkVars, fetchVars>>

----------------------------------------------------------------------------
(* The component constructors *)

\* FooterCtor without the assignment Footer.css = style
FooterCtor_nocss(opts) ==
    /\ Len(footers) < MaxFooters
    /\ footers' = Append(footers, [opts |-> opts, css |-> Undefined])
    /\ UNCHANGED <<year, cfg, props, pageTitle, body, out>>
    /\ UNCHANGED buildVars
    /\ UNCHANGED <<region, styleVars, linkVars, fetchVars>>

\* FooterCtor keeping opts in one module-level variable that every closure reads
FooterCtor_shared(opts) ==
    /\ Len(footers) < MaxFooters
    /\ footers' = [i \in 1..(Len(footers) + 1) |-> [opts |-> opts, css |-> FooterStyle]]
    /\ UNCHANGED <<year, cfg, props, pageTitle, body, out>>
    /\ UNCHANGED buildVars
    /\ UNCHANGED <<region, styleVars, linkVars, fetchVars>>

\* export default ((opts?: Options) => { const Footer = ...; Footer.css = style; return Footer })
FooterCtor(opts) ==
    /\ Len(footers) < MaxFooters
    /\ footers' = Append(footers, [opts |-> opts, css |-> FooterStyle])
    /\ UNCHANGED <<year, cfg, props, pageTitle, body, out>>
    /\ UNCHANGED buildVars
    /\ UNCHANGED <<region, styleVars, linkVars, fetchVars>>

\* export default (() => PageTitle)
\* returns the module-level component object; nothing is created or assigned
PageTitleCtor ==
    /\ UNCHANGED <<year, cfg, props, footers, pageTitle, body, out>>
    /\ UNCHANGED buildVars
    /\ UNCHANGED <<region, styleVars, linkVars, fetchVars>>

\* export default (() => Body)
\* returns the module-level component object; nothing is created or assigned
BodyCtor ==
    /\ UNCHANGED <<year, cfg, props, footers, pageTitle, body, out>>
    /\ UNCHANGED buildVars
    /\ UNCHANGED <<region, styleVars, linkVars, fetchVars>>

----------------------------------------------------------------------------
(* The framework calls a component for a page *)

Call(comp, by, p, result) ==
    [comp |-> comp, by |-> by, page |-> p, at |-> year, result |-> result]

\* CallPageTitle with the title stored back into the configuration (??=)
CallPageTitle_assign(p) ==
    /\ out' = Call("PageTitle", 0, p, PageTitleRender(props[p], cfg))
    /\ cfg' = IF cfg.isObject /\ (cfg.pageTitle = Undefined \/ cfg.pageTitle = Null)
              THEN [cfg EXCEPT !.pageTitle = I18nTitle(cfg.locale)]
              ELSE cfg
    /\ UNCHANGED <<year, props, footers, pageTitle, body>>

CallPageTitle(p) ==
    /\ out' = Call("PageTitle", 0, p, PageTitleRender(props[p], cfg))
    /\ UNCHANGED <<year, cfg, props, footers, pageTitle, body>>

\* CallFooter with the list items kept in a module-level array that every call
\* pushes to
CallFooter_accum(p, i) ==
    /\ i \in 1..Len(footers)
    /\ LET r == FooterRender(footers[i].opts, props[p], cfg, year)
           earlier == IF out.comp = "Footer" /\ out.result.ok
                      THEN out.result.markup.items ELSE <<>>
       IN  out' = Call("Footer", i, p,
                       IF r.ok THEN Ok([r.markup EXCEPT !.items = earlier \o r.markup.items])
                       ELSE r)
    /\ UNCHANGED <<year, cfg, props, footers, pageTitle, body>>

CallFooter(p, i) ==
    /\ i \in 1..Len(footers)
    /\ out' = Call("Footer", i, p, FooterRender(footers[i].opts, props[p], cfg, year))
    /\ UNCHANGED <<year, cfg, props, footers, pageTitle, body>>

CallBody(p) ==
    /\ out' = Call("Body", 0, p, BodyRender(props[p]))
    /\ UNCHANGED <<year, cfg, props, footers, pageTitle, body>>

----------------------------------------------------------------------------

\* the components called from anywhere, in any order
RenderPageTitle(p) ==
    CallPageTitle(p) /\ UNCHANGED <<buildVars, region, styleVars, linkVars, fetchVars>>
RenderFooter(p, i) ==
    CallFooter(p, i) /\ UNCHANGED <<buildVars, region, styleVars, linkVars, fetchVars>>
RenderBody(p) ==
    CallBody(p) /\ UNCHANGED <<buildVars, region, styleVars, linkVars, fetchVars>>

Next ==
    \/ Tick
    \/ \E opts \in OptsValues : FooterCtor(opts)
    \/ PageTitleCtor
    \/ BodyCtor
    \/ \E p \in Pages : RenderPageTitle(p)
    \/ \E p \in Pages, i \in 1..MaxFooters : RenderFooter(p, i)
    \/ \E p \in Pages : RenderBody(p)

Spec == Init /\ [][Next]_vars

----------------------------------------------------------------------------
(* The configuration: quartz.config.ts *)

SiteCfg == [isObject |-> TRUE, pageTitle |-> "meowbark.dev", locale |-> "en-US"]

\* IgnorePatterns with the templates folder not listed
IgnorePatterns_short == <<"private", ".obsidian">>

\* ignorePatterns: ["private", "templates", ".obsidian"]
IgnorePatterns == <<"private", "templates", ".obsidian">>

\* Transformers with CreatedModifiedDate listed before FrontMatter
Transformers_swapped ==
    <<"CreatedModifiedDate", "FrontMatter", "SyntaxHighlighting",
      "ObsidianFlavoredMarkdown", "GitHubFlavoredMarkdown", "TableOfContents",
      "CrawlLinks", "Description", "Latex">>

Transformers ==
    <<"FrontMatter", "CreatedModifiedDate", "SyntaxHighlighting",
      "ObsidianFlavoredMarkdown", "GitHubFlavoredMarkdown", "TableOfContents",
      "CrawlLinks", "Description", "Latex">>

\* CreatedModifiedDate({ priority: [...] })
CreatedModifiedDatePriority == <<"frontmatter", "filesystem">>

Filters == <<"RemoveDrafts">>

Emitters ==
    <<"AliasRedirects", "ComponentResources", "ContentPage", "FolderPage",
      "TagPage", "ContentIndex", "Assets", "Static", "NotFoundPage">>

----------------------------------------------------------------------------
(* A site build: the framework's pipeline over the content files *)

\* the content files whose front-matter marks them as drafts
Draft(f) == f = "posts/deep/b"

\* the verdict of a filter plugin on a file
FilterKeeps(filter, f) == filter = "RemoveDrafts" => ~Draft(f)

Components == {"PageTitle", "Body", "Footer"}

\* the layout constructs one Footer; the build's clock does not pass a new year
InitSite ==
    /\ year = 0
    /\ cfg = SiteCfg
    /\ props = PagesProps
    /\ footers = <<[opts |-> [isObject |-> TRUE, hasLinks |-> TRUE,
                              links |-> [keys |-> <<"GitHub", "Discord">>,
                                         val |-> [k \in LinkKeys |-> LinkUrl(k)]]],
                    css |-> FooterStyle]>>
    /\ pageTitle = [css |-> PageTitleCss]
    /\ body = [css |-> ClipboardStyle, afterDOMLoaded |-> ClipboardScript]
    /\ out = NoCall
    /\ InitBuild
    /\ StyleIdle /\ LinksIdle /\ FetchIdle

\* a path matches an ignore pattern when one of its segments is the pattern
Ignored(f) ==
    \E i \in 1..Len(IgnorePatterns), j \in 1..Len(SourcePath(f)) :
        SourcePath(f)[j] = IgnorePatterns[i]

\* the build lists the content folder, leaving out what the ignore patterns match
Glob ==
    /\ \A f \in Sources : stage[f] = "source"
    /\ stage' = [f \in Sources |-> IF Ignored(f) THEN "ignored" ELSE "transform"]
    /\ UNCHANGED <<applied, emitted, invoked, styled>>
    /\ UNCHANGED compVars
    /\ UNCHANGED <<region, styleVars, linkVars, fetchVars>>

\* the next transformer of the configured list runs on file f
Transform(f) ==
    /\ stage[f] = "transform"
    /\ Len(applied[f]) < Len(Transformers)
    /\ applied' = [applied EXCEPT ![f] = Append(@, Transformers[Len(@) + 1])]
    /\ stage' = [stage EXCEPT ![f] = IF Len(applied[f]) + 1 = Len(Transformers)
                                     THEN "filter" ELSE @]
    /\ UNCHANGED <<emitted, invoked, styled>>
    /\ UNCHANGED compVars
    /\ UNCHANGED <<region, styleVars, linkVars, fetchVars>>

\* the configured filters decide whether file f is published
Filter(f) ==
    /\ stage[f] = "filter"
    /\ stage' = [stage EXCEPT ![f] = IF \A i \in 1..Len(Filters) : FilterKeeps(Filters[i], f)
                                     THEN "emit" ELSE "removed"]
    /\ UNCHANGED <<applied, emitted, invoked, styled>>
    /\ UNCHANGED compVars
    /\ UNCHANGED <<region, styleVars, linkVars, fetchVars>>

\* the emitter that is to run next on file f
NextEmitter(f) == Emitters[Len(emitted[f]) + 1]

\* the next emitter of the configured list has run on file f; the page emitter
\* is finished when the page is rendered and styled
Emit(f) ==
    /\ stage[f] = "emit"
    /\ NextEmitter(f) = "ContentPage" => styled[f]
    /\ emitted' = [emitted EXCEPT ![f] = Append(@, NextEmitter(f))]
    /\ stage' = [stage EXCEPT ![f] = IF Len(emitted[f]) + 1 = Len(Emitters)
                                     THEN "done" ELSE @]
    /\ UNCHANGED <<applied, invoked, styled>>
    /\ UNCHANGED compVars
    /\ UNCHANGED <<region, styleVars, linkVars, fetchVars>>

\* Invoke letting a component be invoked for a file in any stage
Invoke_anytime(f, comp) ==
    /\ comp \notin invoked[f]
    /\ ~styled[f]
    /\ invoked' = [invoked EXCEPT ![f] = @ \cup {comp}]
    /\ CASE comp = "PageTitle" -> CallPageTitle(f)
         [] comp = "Body" -> CallBody(f)
         [] comp = "Footer" -> CallFooter(f, 1)
    /\ region' = [region EXCEPT ![f][comp] = out'.result]
    /\ UNCHANGED <<stage, applied, emitted, styled>>
    /\ UNCHANGED <<styleVars, linkVars, fetchVars>>

\* the page emitter invokes a component to fill a region of the page of file f
Invoke(f, comp) ==
    /\ stage[f] = "emit"
    /\ NextEmitter(f) = "ContentPage"
    /\ comp \notin invoked[f]
    /\ ~styled[f]
    /\ invoked' = [invoked EXCEPT ![f] = @ \cup {comp}]
    /\ CASE comp = "PageTitle" -> CallPageTitle(f)
         [] comp = "Body" -> CallBody(f)
         [] comp = "Footer" -> CallFooter(f, 1)
    /\ region' = [region EXCEPT ![f][comp] = out'.result]
    /\ UNCHANGED <<stage, applied, emitted, styled>>
    /\ UNCHANGED <<styleVars, linkVars, fetchVars>>

\* the stylesheets are attached to the page of file f
AttachStyles(f) ==
    /\ stage[f] = "emit"
    /\ NextEmitter(f) = "ContentPage"
    /\ invoked[f] = Components
    /\ ~styled[f]
    /\ styled' = [styled EXCEPT ![f] = TRUE]
    /\ UNCHANGED <<stage, applied, emitted, invoked>>
    /\ UNCHANGED compVars
    /\ UNCHANGED <<region, styleVars, linkVars, fetchVars>>

NextBuild ==
    \/ Glob
    \/ \E f \in Sources : Transform(f)
    \/ \E f \in Sources : Filter(f)
    \/ \E f \in Sources : Emit(f)
    \/ \E f \in Sources, comp \in Components : Invoke(f, comp)
    \/ \E f \in Sources : AttachStyles(f)

SpecBuild == InitSite /\ [][NextBuild]_vars

----------------------------------------------------------------------------
(* Properties of the components *)

\* C1: PageTitle renders, inside the title link, cfg.pageTitle whenever it is
\* neither null nor undefined (the empty string included), and the default
\* title of the locale cfg.locale otherwise.
C1_TitleFromConfigOrDefault ==
    (out.comp = "PageTitle" /\ cfg.isObject) =>
        /\ out.result.ok
        /\ out.result.markup.text =
              IF cfg.pageTitle \notin {Undefined, Null}
              THEN cfg.pageTitle
              ELSE I18nTitle(cfg.locale)

\* a page title was rendered from a configuration whose pageTitle is the empty string
C1_Witness ==
    /\ out.comp = "PageTitle"
    /\ cfg.isObject /\ cfg.pageTitle = ""
    /\ out.result.ok /\ out.result.markup.text = ""

\* C2: every call of PageTitle, Footer or Body returns markup and raises no
\* error, for every props value (an absent cfg included) and every constructor
\* options value.
C2_NoCallThrows ==
    out.comp # "none" => out.result.ok

\* C3 as stated: two calls of the same component with equal props and equal
\* options return equal markup.
C3_EqualPropsEqualMarkup ==
    [][(/\ out.comp # "none"
        /\ out'.comp = out.comp
        /\ out'.page = out.page
        /\ cfg' = cfg /\ props' = props
        /\ out.comp = "Footer" => footers'[out'.by].opts = footers[out.by].opts)
       => out'.result = out.result]_vars

\* C3 as amended: two calls of the same component with equal props and equal
\* options, made in the same calendar year, return equal markup.
C3_EqualPropsSameYearEqualMarkup ==
    [][(/\ out.comp # "none"
        /\ out'.comp = out.comp
        /\ out'.page = out.page
        /\ cfg' = cfg /\ props' = props
        /\ out.comp = "Footer" => footers'[out'.by].opts = footers[out.by].opts
        /\ out'.at = out.at)
       => out'.result = out.result]_vars

\* a second Footer closure with the options of the first has rendered a page
\* in a later year
C3_Witness ==
    /\ Len(footers) = 2 /\ footers[1].opts = footers[2].opts
    /\ out.comp = "Footer" /\ out.by = 2 /\ out.result.ok
    /\ out.at = 1 /\ out.result.markup.year = 1

\* C4: no step, a call of PageTitle, Footer or Body included, changes cfg, the
\* props of a page (fileData, children, displayClass) or the options a Footer
\* closure was constructed with.
C4_PropsAndOptionsReadOnly ==
    [][/\ cfg' = cfg
       /\ props' = props
       /\ \A i \in 1..Len(footers) :
             i <= Len(footers') /\ footers'[i].opts = footers[i].opts]_vars

\* PageTitle rendered the default title and the configuration still has no pageTitle
C4_Witness ==
    /\ out.comp = "PageTitle" /\ out.result.ok
    /\ cfg.isObject /\ cfg.pageTitle = Undefined
    /\ out.result.markup.text = I18nTitle(cfg.locale)

\* C5: every component carries its attachments in every state (Footer: the
\* footer stylesheet, PageTitle: its style string, Body: the clipboard
\* stylesheet and the clipboard script), and no step changes an attachment of
\* a component that exists.
C5_AttachmentsSet ==
    /\ [](/\ pageTitle.css = PageTitleCss
          /\ body.css = ClipboardStyle
          /\ body.afterDOMLoaded = ClipboardScript
          /\ \A i \in 1..Len(footers) : footers[i].css = FooterStyle)
    /\ [][/\ pageTitle' = pageTitle
          /\ body' = body
          /\ \A i \in 1..Len(footers) :
                i <= Len(footers') /\ footers'[i].css = footers[i].css]_vars

\* the Footer constructor has been called a second time
C5_Witness ==
    /\ Len(footers) = 2
    /\ footers[1].css = FooterStyle /\ footers[2].css = FooterStyle

\* what a call returns when nothing else was ever constructed or called:
\* the component applied to the page's props, the configuration, the options
\* of its own closure and the year of the call
RenderedAlone(c) ==
    CASE c.comp = "PageTitle" -> PageTitleRender(PagesProps[c.page], cfg)
      [] c.comp = "Body" -> BodyRender(PagesProps[c.page])
      [] c.comp = "Footer" -> FooterRender(footers[c.by].opts, PagesProps[c.page], cfg, c.at)

\* C8: whatever was constructed or rendered before or after it, for this page
\* or another, the markup a page received is the markup it receives when it
\* is rendered alone.
C8_RenderedAsAlone ==
    out.comp # "none" => out.result = RenderedAlone(out)

\* a page holds the footer of the first closure while a second closure with
\* other options exists
C8_Witness ==
    /\ Len(footers) = 2 /\ footers[1].opts # footers[2].opts
    /\ out.comp = "Footer" /\ out.by = 1 /\ out.result.ok
    /\ Len(out.result.markup.items) = 1

\* C9: the Footer's list has no items when the constructor got no options or
\* options without links, and otherwise exactly one item per entry of
\* opts.links, in the entries' order, with the key as text and the value as href.
C9_FooterListIsLinks ==
    (out.comp = "Footer" /\ out.result.ok) =>
        LET o == footers[out.by].opts
            items == out.result.markup.items
        IN  IF ~o.isObject \/ ~o.hasLinks
            THEN items = <<>>
            ELSE /\ Len(items) = Len(o.links.keys)
                 /\ \A i \in 1..Len(items) :
                       /\ items[i].text = o.links.keys[i]
                       /\ items[i].href = o.links.val[o.links.keys[i]]

\* a footer with two links was rendered
C9_Witness ==
    /\ out.comp = "Footer" /\ out.result.ok
    /\ footers[out.by].opts.hasLinks
    /\ Len(out.result.markup.items) = 2

\* C10: Body returns exactly one element with id quartz-body, whose content is
\* the children it was given, in order, followed by the comment script, and
\* no other element holds any of the children.
C10_BodyIsShell ==
    out.comp = "Body" =>
        LET m == out.result.markup
            children == PagesProps[out.page].children
        IN  /\ out.result.ok
            /\ Cardinality({i \in 1..Len(m) : m[i].id = "quartz-body"}) = 1
            /\ m[1].id = "quartz-body"
            /\ m[1].content = children
            /\ Len(m) = 2
            /\ m[2].tag = "script"
            /\ \A i \in 2..Len(m) : \A j \in 1..Len(m[i].content) :
                  \A k \in 1..Len(children) : m[i].content[j] # children[k]

\* Body was rendered around three children
C10_Witness ==
    /\ out.comp = "Body" /\ out.result.ok
    /\ Len(PagesProps[out.page].children) = 3
    /\ out.result.markup[1].content = <<"c2", "c1", "c2">>

----------------------------------------------------------------------------
(* Properties of the build *)

IsPrefix(s, t) == Len(s) <= Len(t) /\ \A i \in 1..Len(s) : s[i] = t[i]

\* C6: every content file goes through transform, then filter, then emit; a
\* component is invoked for a page only during emission, only for a file on
\* which all nine transformers have run and which the filter has kept, and
\* the stylesheets are attached only after the three components have filled
\* the page regions.
C6_StagesInOrder ==
    \A f \in Pages :
        /\ stage[f] \notin {"source", "transform"} => Len(applied[f]) = 9
        /\ (emitted[f] # <<>> \/ invoked[f] # {} \/ styled[f]) =>
              /\ stage[f] \in {"emit", "done"}
              /\ Len(applied[f]) = 9
              /\ ~Draft(f)
        /\ (invoked[f] # {} /\ ~styled[f]) =>
              /\ stage[f] = "emit"
              /\ "ContentPage" \notin {emitted[f][i] : i \in 1..Len(emitted[f])}
        /\ styled[f] => invoked[f] = {"PageTitle", "Body", "Footer"}
        /\ (out.page = f /\ out.comp # "none") => out.comp \in invoked[f]

\* a page is rendered and styled while another file is still being transformed
\* and the draft has been removed
C6_Witness ==
    /\ styled["index"] /\ stage["index"] = "emit"
    /\ stage["posts/a"] = "transform"
    /\ stage["posts/deep/b"] = "removed"

\* C7: on each file the transformers run in the order FrontMatter,
\* CreatedModifiedDate, SyntaxHighlighting, ObsidianFlavoredMarkdown,
\* GitHubFlavoredMarkdown, TableOfContents, CrawlLinks, Description, Latex, so
\* FrontMatter has run before CreatedModifiedDate (whose first priority is
\* frontmatter), and the emitters run in the order AliasRedirects,
\* ComponentResources, ContentPage, FolderPage, TagPage, ContentIndex, Assets,
\* Static, NotFoundPage.
C7_PluginsInListedOrder ==
    \A f \in Pages :
        /\ IsPrefix(applied[f],
                    <<"FrontMatter", "CreatedModifiedDate", "SyntaxHighlighting",
                      "ObsidianFlavoredMarkdown", "GitHubFlavoredMarkdown",
                      "TableOfContents", "CrawlLinks", "Description", "Latex">>)
        /\ IsPrefix(emitted[f],
                    <<"AliasRedirects", "ComponentResources", "ContentPage", "FolderPage",
                      "TagPage", "ContentIndex", "Assets", "Static", "NotFoundPage">>)
        /\ CreatedModifiedDatePriority[1] = "frontmatter"
        /\ \A i \in 1..Len(applied[f]) :
              applied[f][i] = "CreatedModifiedDate" =>
                  \E j \in 1..(i - 1) : applied[f][j] = "FrontMatter"
        /\ stage[f] = "done" => Len(applied[f]) = 9 /\ Len(emitted[f]) = 9

\* a file has gone through all nine transformers and all nine emitters
C7_Witness ==
    /\ stage["posts/a"] = "done"
    /\ applied["posts/a"][2] = "CreatedModifiedDate"
    /\ emitted["posts/a"][9] = "NotFoundPage"

----------------------------------------------------------------------------
(* Where the relative URLs of a page lead *)

RECURSIVE Walk(_, _)
\* the path reached from directory dir by the segments of the relative URL rel
Walk(dir, rel) ==
    IF rel = <<>> THEN dir
    ELSE LET seg == Head(rel)
             next == IF seg = "." THEN dir
                     ELSE IF seg = ".." THEN (IF dir = <<>> THEN dir
                                              ELSE SubSeq(dir, 1, Len(dir) - 1))
                     ELSE Append(dir, seg)
         IN  Walk(next, Tail(rel))

\* the path under the site root that the relative URL rel names on the page of
\* slug: it is resolved against the folder the page lies in
ResolveUrl(slug, rel) == Walk(SubSeq(slug, 1, Len(slug) - 1), rel)

\* C11: for every page slug, top-level or nested, the logo of PageTitle
\* resolves from the page to static/meowbark.webp under the site root, as the
\* href of the title link resolves from the page to the site root.
C11_LogoResolvesUnderRoot ==
    (out.comp = "PageTitle" /\ out.result.ok) =>
        LET slug == PagesProps[out.page].fileData.slug
        IN  /\ ResolveUrl(slug, out.result.markup.href) = <<>>
            /\ ResolveUrl(slug, out.result.markup.img) = <<"static", "meowbark.webp">>

----------------------------------------------------------------------------
(* The scripts of an assembled page *)

RECURSIVE ScriptThemes(_)
\* the data-theme values of the giscus client scripts among the nodes, in order
ScriptThemes(nodes) ==
    IF nodes = <<>> THEN <<>>
    ELSE LET n == Head(nodes)
         IN  (IF n.tag = "script" /\ n.src = GiscusSrc THEN n.content ELSE <<>>)
             \o ScriptThemes(Tail(nodes))

\* the data-theme values of the giscus client scripts on the page of file f:
\* those of the Body shell, then the one in the Footer
GiscusOnPage(f) ==
    (IF "Body" \in invoked[f] /\ region[f]["Body"].ok
     THEN ScriptThemes(region[f]["Body"].markup) ELSE <<>>)
    \o (IF "Footer" \in invoked[f] /\ region[f]["Footer"].ok
            /\ region[f]["Footer"].markup.script.src = GiscusSrc
        THEN <<region[f]["Footer"].markup.script.theme>> ELSE <<>>)

\* C12: a page assembled from the Body shell and the Footer holds the giscus
\* client script at most once, hence with one data-theme value.
C12_GiscusAtMostOnce ==
    \A f \in Pages : Len(GiscusOnPage(f)) <= 1

----------------------------------------------------------------------------
(* What is published *)

----------------------------------------------------------------------------
(* The theme colours of the two versions of the configuration *)

Configs == {"quartz.config.ts", "part_004"}

\* Colors with darkMode lacking textHighlight
Colors_partial(config) ==
    [lightMode |->
        [light |-> "#F3FCF0", lightgray |-> "#e5e5e5", gray |-> "#F5F8DE",
         darkgray |-> "#4e4e4e", dark |-> "#2b2b2b", secondary |-> "#a478f1",
         tertiary |-> "#f24389", highlight |-> "rgba(143, 159, 169, 0.15)",
         textHighlight |-> "#f4e784"],
     darkMode |->
        [light |-> "#181818", lightgray |-> "#393639", gray |-> "#646464",
         darkgray |-> "#d4d4d4", dark |-> "#ebebec", secondary |-> "#bb77ed",
         tertiary |-> "#1cdce8", highlight |-> "rgba(143, 159, 169, 0.15)"]]

\* theme.colors
Colors(config) ==
    IF config = "quartz.config.ts"
    THEN [lightMode |->
            [light |-> "#F3FCF0", lightgray |-> "#e5e5e5", gray |-> "#F5F8DE",
             darkgray |-> "#4e4e4e", dark |-> "#2b2b2b", secondary |-> "#a478f1",
             tertiary |-> "#f24389", highlight |-> "rgba(143, 159, 169, 0.15)",
             textHighlight |-> "#f4e784"],
          darkMode |->
            [light |-> "#181818", lightgray |-> "#393639", gray |-> "#646464",
             darkgray |-> "#d4d4d4", dark |-> "#ebebec", secondary |-> "#bb77ed",
             tertiary |-> "#1cdce8", highlight |-> "rgba(143, 159, 169, 0.15)",
             textHighlight |-> "#f34a62"]]
    ELSE [lightMode |->
            [light |-> "#F3FCF0", lightgray |-> "#e5e5e5", gray |-> "#F5F8DE",
             darkgray |-> "#4e4e4e", dark |-> "#2b2b2b", secondary |-> "#f4e784",
             tertiary |-> "#f24389", highlight |-> "rgba(143, 159, 169, 0.15)",
             textHighlight |-> "#a478f1"],
          darkMode |->
            [light |-> "#181818", lightgray |-> "#393639", gray |-> "#646464",
             darkgray |-> "#d4d4d4", dark |-> "#ebebec", secondary |-> "#00B4D8",
             tertiary |-> "#FF3C38", highlight |-> "rgba(143, 159, 169, 0.15)",
             textHighlight |-> "#fff23688"]]

\* the custom property that carries the theme colour of key k
CssVar(k) == <<"--", k>>

\* the custom properties a page defines in a colour scheme: one per colour key
\* of the scheme's mode
ThemeVars(config, scheme) ==
    LET colours == IF scheme = "dark" THEN Colors(config).darkMode
                   ELSE Colors(config).lightMode
    IN  {[name |-> CssVar(k), value |-> colours[k]] : k \in DOMAIN colours}

\* the value of var(name) on the page, unset when the page does not define it
Unset == "unset"
VarValue(name) ==
    IF \E d \in cssVars : d.name = name
    THEN (CHOOSE d \in cssVars : d.name = name).value
    ELSE Unset

----------------------------------------------------------------------------
(* The custom stylesheet *)

\* the var() references of the stylesheet, in order
StyleUses ==
    <<CssVar("darkgray"), CssVar("secondary"), CssVar("tertiary"),
      CssVar("textHighlight"), CssVar("secondary"), CssVar("textHighlight"),
      CssVar("textHighlight"), CssVar("tertiary"), CssVar("tertiary"),
      CssVar("secondary"), CssVar("tertiary"), CssVar("darkgray"),
      CssVar("color"), CssVar("darkgray")>>

Blobs == {"yellow", "green", "red"}

\* background-color of the blob's rule
BlobVar(b) ==
    CASE b = "yellow" -> CssVar("secondary")
      [] b = "green" -> CssVar("tertiary")
      [] b = "red" -> CssVar("textHighlight")

BlobColor(b) == VarValue(BlobVar(b))

\* a keyframe: lengths in hundredths of a rem, the scale in hundredths
Kf(pct, top, side, x, scale) ==
    [pct |-> pct, top |-> top, side |-> side, x |-> x, scale |-> scale]

\* Keyframes with the last keyframe of red at the top of the .red rule
Keyframes_open(b) ==
    CASE b = "yellow" ->
           <<Kf(0, 1429, "left", 714, 100), Kf(30, 2857, "left", 1786, 140),
             Kf(60, 357, "left", 2143, 160), Kf(100, 1429, "left", 714, 100)>>
      [] b = "green" ->
           <<Kf(0, 571, "right", -143, 140), Kf(30, 2857, "right", -357, 80),
             Kf(60, 2143, "right", 1071, 120), Kf(100, 571, "right", -143, 140)>>
      [] b = "red" ->
           <<Kf(0, 1786, "right", 0, 100), Kf(30, 714, "right", 1429, 180),
             Kf(60, 2143, "right", 1071, 80), Kf(100, 2143, "right", 0, 100)>>

\* @keyframes yellow, green, red
Keyframes(b) ==
    CASE b = "yellow" ->
           <<Kf(0, 1429, "left", 714, 100), Kf(30, 2857, "left", 1786, 140),
             Kf(60, 357, "left", 2143, 160), Kf(100, 1429, "left", 714, 100)>>
      [] b = "green" ->
           <<Kf(0, 571, "right", -143, 140), Kf(30, 2857, "right", -357, 80),
             Kf(60, 2143, "right", 1071, 120), Kf(100, 571, "right", -143, 140)>>
      [] b = "red" ->
           <<Kf(0, 1786, "right", 0, 100), Kf(30, 714, "right", 1429, 180),
             Kf(60, 2143, "right", 1071, 80), Kf(100, 1786, "right", 0, 100)>>

\* where the blob is drawn at keyframe i of its animation
Drawn(b, i) ==
    LET k == Keyframes(b)[i]
    IN  [top |-> k.top, side |-> k.side, x |-> k.x, scale |-> k.scale]

----------------------------------------------------------------------------
(* A page in a browser: the colour scheme and the running animations *)

\* the page is loaded with the :root colours of lightMode; each animation is
\* at its first keyframe
InitStyle ==
    /\ InitComponents /\ InitBuild /\ LinksIdle /\ FetchIdle
    /\ cfg = SiteCfg
    /\ mode \in [config : Configs, scheme : {"light"}]
    /\ cssVars = ThemeVars(mode.config, mode.scheme)
    /\ blob = [b \in Blobs |-> [at |-> 1, iteration |-> "first", drawn |-> Drawn(b, 1)]]

\* the reader switches between light and dark mode
ToggleMode ==
    /\ mode' = [mode EXCEPT !.scheme = IF @ = "light" THEN "dark" ELSE "light"]
    /\ cssVars' = ThemeVars(mode'.config, mode'.scheme)
    /\ UNCHANGED blob
    /\ UNCHANGED <<compVars, buildVars, region, linkVars, fetchVars>>

\* the animation of blob b reaches its next keyframe
Advance(b) ==
    /\ blob[b].at < Len(Keyframes(b))
    /\ blob' = [blob EXCEPT ![b] = [@ EXCEPT !.at = @ + 1,
                                             !.drawn = Drawn(b, blob[b].at + 1)]]
    /\ UNCHANGED <<mode, cssVars>>
    /\ UNCHANGED <<compVars, buildVars, region, linkVars, fetchVars>>

\* animation-iteration-count: infinite
\* the iteration of blob b is over and the next one begins at the first keyframe
Repeat(b) ==
    /\ blob[b].at = Len(Keyframes(b))
    /\ blob' = [blob EXCEPT ![b] = [at |-> 1, iteration |-> "later", drawn |-> Drawn(b, 1)]]
    /\ UNCHANGED <<mode, cssVars>>
    /\ UNCHANGED <<compVars, buildVars, region, linkVars, fetchVars>>

NextStyle ==
    \/ ToggleMode
    \/ \E b \in Blobs : Advance(b)
    \/ \E b \in Blobs : Repeat(b)

\* the animations run by the browser's clock, whatever the reader does
SpecStyle ==
    /\ InitStyle /\ [][NextStyle]_vars
    /\ \A b \in Blobs : WF_vars(Advance(b)) /\ WF_vars(Repeat(b))

----------------------------------------------------------------------------
(* Properties of the theme and the stylesheet *)

\* C14: in both versions of the configuration lightMode and darkMode define the
\* same colour keys, and every theme colour variable the stylesheet uses
\* (--secondary, --tertiary, --textHighlight, --darkgray) is defined in the
\* scheme the page is in, so no blob, gradient or link colour is unset after a
\* switch between light and dark mode.
C14_ThemeTotalOverStylesheet ==
    LET used == {<<"--", "secondary">>, <<"--", "tertiary">>,
                 <<"--", "textHighlight">>, <<"--", "darkgray">>}
    IN  /\ \A config \in {"quartz.config.ts", "part_004"} :
              DOMAIN Colors(config).lightMode = DOMAIN Colors(config).darkMode
        /\ {StyleUses[i] : i \in 1..Len(StyleUses)} \ {<<"--", "color">>} = used
        /\ \A name \in used : VarValue(name) # "unset"
        /\ \A b \in {"yellow", "green", "red"} : BlobColor(b) # "unset"

\* the reader of the second configuration has switched to dark mode while the
\* blobs are moving
C14_Witness ==
    /\ mode = [config |-> "part_004", scheme |-> "dark"]
    /\ VarValue(<<"--", "textHighlight">>) = "#fff23688"
    /\ BlobColor("yellow") = "#00B4D8"
    /\ blob["green"].at = 3

\* C15: each blob animation is a closed cycle that repeats forever: where an
\* iteration begins is where the previous one ended, in position and in scale,
\* and every blob begins a new iteration again and again.
C15_ClosedCycleForever ==
    /\ [][\A b \in {"yellow", "green", "red"} :
            (blob[b].at = 4 /\ blob'[b].at = 1) => blob'[b].drawn = blob[b].drawn]_vars
    /\ \A b \in {"yellow", "green", "red"} :
          /\ []<>(blob[b].at = 4)
          /\ []<>(blob[b].at = 1 /\ blob[b].iteration = "later")

\* red ended an iteration at its last keyframe and has begun the next one
C15_Witness ==
    /\ blob["red"].iteration = "later" /\ blob["red"].at = 1
    /\ blob["red"].drawn = [top |-> 1786, side |-> "right", x |-> 0, scale |-> 100]
    /\ blob["yellow"].at = 4

----------------------------------------------------------------------------
(* The posts and their wikilinks *)

Documents == {"oop", "errors", "fear"}

\* the note name under which a document is linked
DocName(d) ==
    CASE d = "oop" -> "Sometimes, objected oriented programming is the right choice"
      [] d = "errors" -> "Better error handling"
      [] d = "fear" -> "We shouldn't fear object oriented programming"

\* the headings of a document outside its code blocks, each as its chunks:
\* runs of letters, digits, - and _, single spaces, single other characters
Headings(d) ==
    CASE d = "oop" ->
           <<<<"Introduction">>, <<"Why", ",", " ", "just", " ", "why", "?">>,
             <<"Status", " ", "Quo", ":", " ", "Utility-first", " ", "approach">>,
             <<"Poor", " ", "discoverability", " ", "and", " ", "Implementation", " ", "drift">>,
             <<"Less", " ", "unit-testability">>,
             <<"What", "'", "s", " ", "your", " ", "suggestion", ",", " ", "then", "?">>,
             <<"Pitch", ":", " ", "Use", " ", "wrapper", " ", "utility", " ", "class">>,
             <<"For", " ", "mutation">>, <<"Benefits">>,
             <<"Tooling", " ", "autosuggest", " ", "for", " ", "better", " ", "discoverability">>,
             <<"Open", " ", "up", " ", "doors", " ", "for", " ", "generic", " ", "code", " ", "(", "polymorphism", ")">>,
             <<"Open", " ", "door", " ", "to", " ", "builder", " ", "pattern", " ", "for", " ", "test", " ", "mocking">>,
             <<"Wait", ",", " ", "are", " ", "we", " ", "just", " ", "complicating", " ", "things", "?">>,
             <<"Can", "'", "t", " ", "you", " ", "define", " ", "functions", " ", "in", " ", "POJO", " ", "as", " ", "well", "?">>,
             <<"But", " ", "React", " ", "best", " ", "practice", " ", "is", " ", "to", " ", "pass", " ", "plain", " ", "object">>,
             <<"It", "'", "s", " ", "not", " ", "convention", ".", " ", "We", " ", "don", "'", "t", " ", "do", " ", "that", ".">>,
             <<"Conclusion">>>>
      [] d = "errors" ->
           <<
             <<"The", " ", "Current", " ", "State", " ", "of", " ", "Error", " ", "Handling">>,
             <<"Limitations", " ", "of", " ", "Traditional", " ", "Error", " ", "Handling">>,
             <<"1", ".", " ", "Type", " ", "Safety", " ", "Concerns">>,
             <<"2", ".", " ", "Lack", " ", "of", " ", "Type", " ", "System", " ", "Integration">>,
             <<"Modern", " ", "Approaches", " ", "to", " ", "Error", " ", "Handling">>,
             <<"Go-style", ":", " ", "Return", " ", "Tuples">>,
             <<"Monadic", " ", "Style", ":", " ", "Result", " ", "Types">>,
             <<"My", " ", "take", " ", "on", " ", "the", " ", "tradeoffs">>,
             <<"The", " ", "community", "'", "s", " ", "take", " ", "on", " ", "the", " ", "tradeoff">>,
             <<"Additional", " ", "Context", ":", " ", "Panic", " ", "vs", ".", " ", "Recoverable", " ", "Errors">>,
             <<"The", " ", "\"", "Check", " ", "Everything", "\"", " ", "Controversy">>,
             <<"Practical", " ", "Implementation", " ", "Strategies">>,
             <<"In", " ", "Defense", " ", "of", " ", "Try", "/", "Catch">>,
             <<"Arguments", " ", "for", " ", "Alternative", " ", "Approaches">>,
             <<"Arguments", " ", "against", " ", "Alternative", " ", "approaches">>,
             <<"Conclusion">>>>
      [] d = "fear" ->
           <<<<"OOP", " ", "for", " ", "the", " ", "greater", " ", "good">>,
             <<"Taking", " ", "this", " ", "design", " ", "further">>,
             <<"What", "'", "s", " ", "the", " ", "catch", "?">>,
             <<"Conclusion">>>>

\* the block ids defined in a document
BlockIds(d) ==
    CASE d = "oop" -> {"sfb57r"}
      [] d = "errors" -> {"z3ctgq"}
      [] d = "fear" -> {}

\* a parsed wikilink: [[doc#heading]], [[doc#^block]] or [[doc]], embedded with !
Ref(embed, doc, heading, block) ==
    [embed |-> embed, doc |-> doc, heading |-> heading, block |-> block]

\* the wikilinks of a document, in order
Refs(d) ==
    CASE d = "oop" ->
           <<Ref(FALSE, "", <<"Status", " ", "Quo", " ", "Utility-first", " ", "approach">>, ""),
             Ref(FALSE, "", <<"Poor", " ", "discoverability">>, ""),
             Ref(FALSE, "", <<"Implementation", " ", "drift">>, ""),
             Ref(FALSE, "VSCode", <<>>, ""),
             Ref(TRUE, "Screenshot 2024-10-27 164617.png", <<>>, ""),
             Ref(TRUE, "Sometimes, objected oriented programming is the right choice", <<>>, "sfb57r"),
             Ref(FALSE, "", <<"Why", ",", " ", "just", " ", "why", "?">>, "")>>
      [] d = "errors" ->
           <<Ref(FALSE, "A Halloween scary story", <<>>, ""),
             Ref(TRUE, "Better error handling", <<>>, "z3ctgq"),
             Ref(TRUE, "Better error handling 2024-11-03 14.30.17.excalidraw", <<>>, ""),
             Ref(TRUE, "Better error handling 2024-11-03 15.05.02.excalidraw", <<>>, "")>>
      [] d = "fear" ->
           <<Ref(FALSE, "React", <<>>, ""),
             Ref(TRUE, "Screenshot 2024-10-26 at 11.41.32 PM.png", <<>>, "")>>

\* the chunks with a capital letter, each with its lower case
Capitals ==
    <<<<"Additional", "additional">>, <<"Alternative", "alternative">>,
      <<"Approaches", "approaches">>, <<"Arguments", "arguments">>,
      <<"Benefits", "benefits">>, <<"But", "but">>, <<"Can", "can">>,
      <<"Catch", "catch">>, <<"Check", "check">>, <<"Concerns", "concerns">>,
      <<"Conclusion", "conclusion">>, <<"Context", "context">>,
      <<"Controversy", "controversy">>, <<"Current", "current">>,
      <<"Defense", "defense">>, <<"Error", "error">>, <<"Errors", "errors">>,
      <<"Everything", "everything">>, <<"For", "for">>,
      <<"Go-style", "go-style">>, <<"Handling", "handling">>,
      <<"Implementation", "implementation">>, <<"In", "in">>,
      <<"Integration", "integration">>, <<"Introduction", "introduction">>,
      <<"It", "it">>, <<"Lack", "lack">>, <<"Less", "less">>,
      <<"Limitations", "limitations">>, <<"Modern", "modern">>,
      <<"Monadic", "monadic">>, <<"My", "my">>, <<"OOP", "oop">>,
      <<"Open", "open">>, <<"POJO", "pojo">>, <<"Panic", "panic">>,
      <<"Pitch", "pitch">>, <<"Poor", "poor">>, <<"Practical", "practical">>,
      <<"Quo", "quo">>, <<"React", "react">>, <<"Recoverable", "recoverable">>,
      <<"Result", "result">>, <<"Return", "return">>, <<"Safety", "safety">>,
      <<"State", "state">>, <<"Status", "status">>,
      <<"Strategies", "strategies">>, <<"Style", "style">>,
      <<"System", "system">>, <<"Taking", "taking">>, <<"The", "the">>,
      <<"Tooling", "tooling">>, <<"Traditional", "traditional">>,
      <<"Try", "try">>, <<"Tuples", "tuples">>, <<"Type", "type">>,
      <<"Types", "types">>, <<"Use", "use">>,
      <<"Utility-first", "utility-first">>, <<"Wait", "wait">>, <<"We", "we">>,
      <<"What", "what">>, <<"Why", "why">>>>

Lower(c) ==
    IF \E i \in 1..Len(Capitals) : Capitals[i][1] = c
    THEN Capitals[CHOOSE i \in 1..Len(Capitals) : Capitals[i][1] = c][2]
    ELSE c

\* the characters an anchor drops
Punctuation == {":", ",", "?", "'", ".", "(", ")", "\"", "/"}

RECURSIVE Slug(_)
\* the anchor of a heading text: lower case, the punctuation dropped, a hyphen
\* for each space
Slug(text) ==
    IF text = <<>> THEN ""
    ELSE LET c == Head(text)
         IN  (IF c = " " THEN "-" ELSE IF c \in Punctuation THEN "" ELSE Lower(c))
             \o Slug(Tail(text))

\* the document a wikilink names: the document itself when it names none
Target(d, ref) ==
    IF ref.doc = "" THEN d
    ELSE IF \E t \in Documents : DocName(t) = ref.doc
    THEN CHOOSE t \in Documents : DocName(t) = ref.doc
    ELSE "none"

\* what a wikilink of document d leads to
Lookup(d, ref) ==
    LET t == Target(d, ref)
    IN  IF t = "none" THEN "outside"
        ELSE IF ref.heading # <<>>
        THEN (IF \E i \in 1..Len(Headings(t)) : Slug(Headings(t)[i]) = Slug(ref.heading)
              THEN "found" ELSE "missing")
        ELSE IF ref.block # ""
        THEN (IF ref.block \in BlockIds(t) THEN "found" ELSE "missing")
        ELSE "found"

InitLinks ==
    /\ InitComponents /\ InitBuild /\ StyleIdle /\ FetchIdle
    /\ cfg = SiteCfg
    /\ cursor = [d \in Documents |-> 0]
    /\ resolved = [d \in Documents |-> <<>>]

\* the next wikilink of document d is resolved
Resolve(d) ==
    /\ cursor[d] < Len(Refs(d))
    /\ cursor' = [cursor EXCEPT ![d] = @ + 1]
    /\ resolved' = [resolved EXCEPT ![d] = Append(@, Lookup(d, Refs(d)[cursor[d] + 1]))]
    /\ UNCHANGED <<compVars, buildVars, region, styleVars, fetchVars>>

NextLinks == \E d \in Documents : Resolve(d)

SpecLinks == InitLinks /\ [][NextLinks]_vars

\* C16: every in-document reference in the posts has a target: each heading
\* link [[#Heading]] names a heading of the same document, and each block embed
\* ![[Document#^id]] names a block id defined in the named document.
C16_ReferencesHaveTargets ==
    \A d \in Documents : \A i \in 1..Len(resolved[d]) :
        LET ref == Refs(d)[i]
        IN  (ref.heading # <<>> \/ ref.block # "") => resolved[d][i] = "found"

----------------------------------------------------------------------------
(* The values of the error-handling post *)

JNull == [t |-> "null"]
JNum(n) == [t |-> "number", v |-> n]
JStr(x) == [t |-> "string", v |-> x]
JArr(x) == [t |-> "array", v |-> x]
\* new Error(message)
JError(message) == [t |-> "Error", message |-> message]
\* { type, message } as ApiError
ApiError(type, message) == [t |-> "ApiError", type |-> type, message |-> message]
\* { id, profile, posts }
UserData(id, profile, posts) ==
    [t |-> "UserData", id |-> id, profile |-> profile, posts |-> posts]

IsNull(x) == x.t = "null"

\* x?.type
TypeOf(x) == IF x.t = "ApiError" THEN x.type ELSE Undefined

\* the operands divide is called with
DivArgs == {0, 1, 2}

\* function divide(a, b): the quotient is kept as the pair of its operands
divide(a, b) ==
    IF b = 0
    THEN <<JNum(0), JError("Division by zero")>>
    ELSE <<JNum(<<a, b>>), JNull>>

----------------------------------------------------------------------------
(* The server *)

Endpoints == {"profile", "posts"}

\* what a request ends in: a response with a status, or no response at all
Answers == {"200", "429", "500", "no response"}

\* the user the data is fetched for
UserId == 7

\* the body of the response of status st to request number n of endpoint e:
\* every response has a body of its own
BodyOf(e, st, n) == <<e, st, n>>

\* the reason fetch rejects with when there is no response
FetchFailure == JError("Failed to fetch")

----------------------------------------------------------------------------
(* The helper functions, given how request number n ends *)

\* fetchProfileGo
fetchProfileGo(st, n) ==
    IF st = "no response"
    THEN <<JStr(""), ApiError("NetworkError", <<"String", FetchFailure.message>>)>>
    ELSE IF st # "200"
    THEN <<JStr(""), ApiError(IF st = "429" THEN "RateLimit" ELSE "NetworkError",
                              BodyOf("profile", st, n))>>
    ELSE <<JStr(BodyOf("profile", st, n)), JNull>>

\* fetchPostsGo
fetchPostsGo(st, n) ==
    IF st = "no response"
    THEN <<JArr(<<>>), ApiError("NetworkError", <<"String", FetchFailure.message>>)>>
    ELSE IF st # "200"
    THEN <<JArr(<<>>), ApiError(IF st = "429" THEN "RateLimit" ELSE "NetworkError",
                                BodyOf("posts", st, n))>>
    ELSE <<JArr(<<BodyOf("posts", st, n)>>), JNull>>

Fulfilled(v) == [state |-> "fulfilled", value |-> v]
Rejected(r) == [state |-> "rejected", value |-> r]

\* fetchProfileRaw
fetchProfileRaw(st, n) ==
    IF st = "no response" THEN Rejected(FetchFailure)
    ELSE IF st # "200"
    THEN Rejected(ApiError(IF st = "429" THEN "RateLimit" ELSE "NetworkError",
                           BodyOf("profile", st, n)))
    ELSE Fulfilled(JStr(BodyOf("profile", st, n)))

\* fetchPostsRaw
fetchPostsRaw(st, n) ==
    IF st = "no response" THEN Rejected(FetchFailure)
    ELSE IF st # "200"
    THEN Rejected(ApiError(IF st = "429" THEN "RateLimit" ELSE "NetworkError",
                           BodyOf("posts", st, n)))
    ELSE Fulfilled(JArr(<<BodyOf("posts", st, n)>>))

\* const isRateLimit = (error) => (error as ApiError)?.type === 'RateLimit'
isRateLimit(error) == TypeOf(error) = "RateLimit"

----------------------------------------------------------------------------
(* A call of fetchUserDataGo *)

\* no tuple yet
NoResult == <<>>

\* the tuple a Go-style helper resolves to when request number n of e has ended
HelperGo(e, n) ==
    IF e = "profile" THEN fetchProfileGo(resp[e][n], n) ELSE fetchPostsGo(resp[e][n], n)

\* the profile error, else the posts error, else the data of the two tuples r
GoOutcome(r) ==
    IF ~IsNull(r["profile"][2]) THEN <<JNull, r["profile"][2]>>
    ELSE IF ~IsNull(r["posts"][2]) THEN <<JNull, r["posts"][2]>>
    ELSE <<UserData(UserId, r["profile"][1], r["posts"][1]), JNull>>

GoSettled(n) == \A e \in Endpoints : go.res[n][e] # NoResult

\* the call: both requests are launched in parallel
GoCall ==
    /\ go.pc = "start"
    /\ go' = [go EXCEPT !.pc = "await1", !.issued = [e \in Endpoints |-> @[e] + 1]]
    /\ UNCHANGED <<resp, trad, mon>>
    /\ UNCHANGED <<compVars, buildVars, region, styleVars, linkVars>>

\* the helper of endpoint e resolves
GoSettle(e) ==
    /\ go.pc \in {"await1", "await2"}
    /\ LET n == IF go.pc = "await1" THEN 1 ELSE 2
       IN  /\ go.res[n][e] = NoResult
           /\ go' = [go EXCEPT !.res[n][e] = HelperGo(e, n)]
    /\ UNCHANGED <<resp, trad, mon>>
    /\ UNCHANGED <<compVars, buildVars, region, styleVars, linkVars>>

\* GoDecide retrying only when the profile request was rate limited
GoDecide_profileOnly ==
    /\ go.pc = "await1" /\ GoSettled(1)
    /\ go' = IF TypeOf(go.res[1]["profile"][2]) = "RateLimit"
             THEN [go EXCEPT !.pc = "delay"]
             ELSE [go EXCEPT !.pc = "done", !.ret = GoOutcome(go.res[1])]
    /\ UNCHANGED <<resp, trad, mon>>
    /\ UNCHANGED <<compVars, buildVars, region, styleVars, linkVars>>

\* Promise.all of the first attempt has resolved: wait and retry when either
\* error is a rate limit, else return
GoDecide ==
    /\ go.pc = "await1" /\ GoSettled(1)
    /\ go' = IF \/ TypeOf(go.res[1]["profile"][2]) = "RateLimit"
                \/ TypeOf(go.res[1]["posts"][2]) = "RateLimit"
             THEN [go EXCEPT !.pc = "delay"]
             ELSE [go EXCEPT !.pc = "done", !.ret = GoOutcome(go.res[1])]
    /\ UNCHANGED <<resp, trad, mon>>
    /\ UNCHANGED <<compVars, buildVars, region, styleVars, linkVars>>

\* the delay is over: both requests are launched again
GoRetry ==
    /\ go.pc = "delay"
    /\ go' = [go EXCEPT !.pc = "await2", !.issued = [e \in Endpoints |-> @[e] + 1]]
    /\ UNCHANGED <<resp, trad, mon>>
    /\ UNCHANGED <<compVars, buildVars, region, styleVars, linkVars>>

\* Promise.all of the retry has resolved
GoReturn ==
    /\ go.pc = "await2" /\ GoSettled(2)
    /\ go' = [go EXCEPT !.pc = "done", !.ret = GoOutcome(go.res[2])]
    /\ UNCHANGED <<resp, trad, mon>>
    /\ UNCHANGED <<compVars, buildVars, region, styleVars, linkVars>>

GoNext ==
    \/ GoCall
    \/ \E e \in Endpoints : GoSettle(e)
    \/ GoDecide
    \/ GoRetry
    \/ GoReturn

----------------------------------------------------------------------------
(* A call of fetchUserDataTraditional *)

Pending == [state |-> "pending"]
Nothing == [t |-> "nothing"]
NoReturn == [kind |-> "none"]

\* the promise a raw helper returns, settled, when request number n of e has ended
HelperRaw(e, n) ==
    IF e = "profile" THEN fetchProfileRaw(resp[e][n], n) ELSE fetchPostsRaw(resp[e][n], n)

\* return { id: userId, profile, posts }
TradData(n) ==
    [kind |-> "return",
     value |-> UserData(UserId, trad.settled[n]["profile"].value,
                        trad.settled[n]["posts"].value)]

\* MessageOf raising a TypeError for every value that is not an instance of Error
MessageOf_errorsOnly(x) ==
    IF x.t # "Error"
    THEN [threw |-> TRUE, value |-> JError(<<"TypeError: ", "Cannot read properties of undefined">>)]
    ELSE [threw |-> FALSE, value |-> x.message]

\* error.message: reading a property raises a TypeError on null and undefined
\* only; on any other value it yields the property, undefined when there is none
MessageOf(x) ==
    IF x.t \in {"null", "undefined"}
    THEN [threw |-> TRUE, value |-> JError(<<"TypeError: ", "Cannot read properties of undefined">>)]
    ELSE [threw |-> FALSE,
          value |-> IF "message" \in DOMAIN x THEN x.message ELSE Undefined]

\* the outer catch: throw new Error(`Failed to fetch user data: ${error.message}`)
\* an error raised while the message is read leaves the function in its place
TradWrap(error) ==
    LET read == MessageOf(error)
    IN  [kind |-> "throw",
         value |-> IF read.threw THEN read.value
                   ELSE JError(<<"Failed to fetch user data: ", read.value>>)]

\* Promise.all of attempt n has settled: it rejects with the first rejection
\* and is fulfilled when both promises are
TradAllSettled(n) ==
    \/ trad.caught[n] # Nothing
    \/ \A e \in Endpoints : trad.settled[n][e].state = "fulfilled"

\* the call: both requests are launched before the first await
TradCall ==
    /\ trad.pc = "start"
    /\ trad' = [trad EXCEPT !.pc = "await1", !.issued = [e \in Endpoints |-> @[e] + 1]]
    /\ UNCHANGED <<resp, go, mon>>
    /\ UNCHANGED <<compVars, buildVars, region, styleVars, linkVars>>

\* the promise of request number n of endpoint e settles, whether or not the
\* function still waits for it
TradSettle(e, n) ==
    /\ trad.issued[e] >= n
    /\ trad.settled[n][e] = Pending
    /\ LET p == HelperRaw(e, n)
       IN  trad' = [trad EXCEPT !.settled[n][e] = p,
                                !.caught[n] = IF p.state = "rejected" /\ @ = Nothing
                                              THEN p.value ELSE @]
    /\ UNCHANGED <<resp, go, mon>>
    /\ UNCHANGED <<compVars, buildVars, region, styleVars, linkVars>>

\* the first await is over: return the data, or catch the rejection and wait
\* when it is a rate limit, or throw it on to the outer catch
TradResume1 ==
    /\ trad.pc = "await1" /\ TradAllSettled(1)
    /\ trad' = IF trad.caught[1] = Nothing
               THEN [trad EXCEPT !.pc = "done", !.ret = TradData(1)]
               ELSE IF isRateLimit(trad.caught[1])
               THEN [trad EXCEPT !.pc = "delay"]
               ELSE [trad EXCEPT !.pc = "done", !.ret = TradWrap(trad.caught[1])]
    /\ UNCHANGED <<resp, go, mon>>
    /\ UNCHANGED <<compVars, buildVars, region, styleVars, linkVars>>

\* the delay is over: both requests are launched again
TradRetry ==
    /\ trad.pc = "delay"
    /\ trad' = [trad EXCEPT !.pc = "await2", !.issued = [e \in Endpoints |-> @[e] + 1]]
    /\ UNCHANGED <<resp, go, mon>>
    /\ UNCHANGED <<compVars, buildVars, region, styleVars, linkVars>>

\* TradResume2 waiting and retrying once more when the retry is rate limited
TradResume2_again ==
    /\ trad.pc = "await2" /\ TradAllSettled(2)
    /\ trad' = IF trad.caught[2] = Nothing
               THEN [trad EXCEPT !.pc = "done", !.ret = TradData(2)]
               ELSE IF isRateLimit(trad.caught[2]) /\ trad.issued["profile"] < 3
               THEN [trad EXCEPT !.pc = "delay"]
               ELSE [trad EXCEPT !.pc = "done", !.ret = TradWrap(trad.caught[2])]
    /\ UNCHANGED <<resp, go, mon>>
    /\ UNCHANGED <<compVars, buildVars, region, styleVars, linkVars>>

\* the await of the retry is over: return the data, or the rejection leaves the
\* inner catch and reaches the outer one
TradResume2 ==
    /\ trad.pc = "await2" /\ TradAllSettled(2)
    /\ trad' = IF trad.caught[2] = Nothing
               THEN [trad EXCEPT !.pc = "done", !.ret = TradData(2)]
               ELSE [trad EXCEPT !.pc = "done", !.ret = TradWrap(trad.caught[2])]
    /\ UNCHANGED <<resp, go, mon>>
    /\ UNCHANGED <<compVars, buildVars, region, styleVars, linkVars>>

TradNext ==
    \/ TradCall
    \/ \E e \in Endpoints, n \in 1..2 : TradSettle(e, n)
    \/ TradResume1
    \/ TradRetry
    \/ TradResume2

----------------------------------------------------------------------------
(* Both functions called for the same user against the same server *)

InitFetch ==
    /\ InitComponents /\ InitBuild /\ StyleIdle /\ LinksIdle
    /\ cfg = SiteCfg
    /\ resp \in [Endpoints -> [1..2 -> Answers]]
    /\ go = [pc |-> "start",
             res |-> [n \in 1..2 |-> [e \in Endpoints |-> NoResult]],
             issued |-> [e \in Endpoints |-> 0],
             ret |-> NoResult]
    /\ trad = [pc |-> "start",
               settled |-> [n \in 1..2 |-> [e \in Endpoints |-> Pending]],
               caught |-> [n \in 1..2 |-> Nothing],
               issued |-> [e \in Endpoints |-> 0],
               ret |-> NoReturn]
    /\ mon = <<>>

NextFetch == GoNext \/ TradNext

\* every request ends, and the event loop runs every continuation that is ready
SpecFetch ==
    /\ InitFetch /\ [][NextFetch]_vars
    /\ WF_vars(GoNext) /\ WF_vars(TradNext)

----------------------------------------------------------------------------
(* Properties of the examples of the error-handling post *)

\* the error of the pair is non-null exactly when its result is null
EitherOr(pair) == ~IsNull(pair[2]) <=> IsNull(pair[1])

\* C17: divide, fetchProfileGo, fetchPostsGo and fetchUserDataGo return a pair
\* holding either the result or an error, never both: the error component is
\* non-null exactly when the result component is null.
C17_ResultOrErrorNeverBoth ==
    /\ \A a \in DivArgs, b \in DivArgs : EitherOr(divide(a, b))
    /\ \A n \in 1..2, e \in Endpoints :
          go.res[n][e] # NoResult => EitherOr(go.res[n][e])
    /\ go.ret # NoResult => EitherOr(go.ret)

\* C18: if either first-attempt result of fetchUserDataGo carries a RateLimit
\* error, both requests are issued again after the delay, each once, and the
\* value returned is decided by the second attempt alone (the profile error
\* before the posts error, else the data); otherwise no request is issued again
\* and the first-attempt profile error, else posts error, else the data is
\* returned.
C18_GoRetriesBothOnRateLimit ==
    LET limited == resp["profile"][1] = "429" \/ resp["posts"][1] = "429"
        isErrorOf(x, e, n) ==
            /\ x.t = "ApiError"
            /\ x.type = (IF resp[e][n] = "429" THEN "RateLimit" ELSE "NetworkError")
            /\ x.message = (IF resp[e][n] = "no response"
                            THEN <<"String", "Failed to fetch">>
                            ELSE <<e, resp[e][n], n>>)
        decidedBy(n) ==
            IF resp["profile"][n] # "200"
            THEN go.ret[1].t = "null" /\ isErrorOf(go.ret[2], "profile", n)
            ELSE IF resp["posts"][n] # "200"
            THEN go.ret[1].t = "null" /\ isErrorOf(go.ret[2], "posts", n)
            ELSE /\ go.ret[2].t = "null"
                 /\ go.ret[1] = [t |-> "UserData", id |-> 7,
                                 profile |-> [t |-> "string", v |-> <<"profile", "200", n>>],
                                 posts |-> [t |-> "array", v |-> <<<<"posts", "200", n>>>>]]
    IN  /\ \A e \in {"profile", "posts"} :
              /\ go.issued[e] <= 2
              /\ go.issued[e] = 2 <=> go.pc \in {"await2", "done"} /\ limited
              /\ go.pc = "done" /\ ~limited => go.issued[e] = 1
        /\ go.pc = "delay" => limited
        /\ go.pc = "done" => go.ret # <<>> /\ decidedBy(IF limited THEN 2 ELSE 1)

\* fetchUserDataGo was rate limited on the posts request alone, retried, and
\* returned the data of the second attempt
C18_Witness ==
    /\ resp["profile"][1] = "200" /\ resp["posts"][1] = "429"
    /\ resp["profile"][2] = "200" /\ resp["posts"][2] = "200"
    /\ go.pc = "done" /\ go.issued = [profile |-> 2, posts |-> 2]
    /\ go.ret[1].t = "UserData" /\ go.ret[1].profile.v = <<"profile", "200", 2>>

\* C19: for every sequence of server responses a call of
\* fetchUserDataTraditional or of fetchUserDataGo terminates after at most two
\* requests per endpoint; a rate limit answered to the retry ends the call in
\* an error, returned or thrown, and never starts a third attempt.
C19_RetryBounded ==
    LET limitedAgain == resp["profile"][2] = "429" \/ resp["posts"][2] = "429"
    IN  /\ [](\A e \in {"profile", "posts"} : go.issued[e] <= 2 /\ trad.issued[e] <= 2)
        /\ []((go.pc = "done" /\ go.issued["profile"] = 2 /\ limitedAgain) =>
                 (go.ret[1].t = "null" /\ go.ret[2].t = "ApiError"))
        /\ []((trad.pc = "done" /\ trad.issued["profile"] = 2 /\ limitedAgain) =>
                 (trad.ret.kind = "throw" /\ trad.ret.value.t = "Error"))
        /\ <>[](go.pc = "done" /\ go.ret # <<>>)
        /\ <>[](trad.pc = "done" /\ trad.ret.kind \in {"return", "throw"})

\* both calls were rate limited, retried, were rate limited again and ended:
\* one returned the rate limit, the other threw
C19_Witness ==
    /\ resp["profile"][1] = "429" /\ resp["profile"][2] = "429"
    /\ go.pc = "done" /\ go.issued = [profile |-> 2, posts |-> 2]
    /\ go.ret[2].t = "ApiError" /\ go.ret[2].type = "RateLimit"
    /\ trad.pc = "done" /\ trad.issued = [profile |-> 2, posts |-> 2]
    /\ trad.ret.kind = "throw"

\* C20: for every combination of responses of the two endpoints in the first
\* attempt and in the retry, and for every order in which the parallel
\* requests settle, fetchUserDataTraditional retries exactly when
\* fetchUserDataGo retries, and returns the user data exactly when
\* fetchUserDataGo returns a pair with a null error.
C20_TraditionalAsGo ==
    (go.pc = "done" /\ trad.pc = "done"
        /\ \A e \in {"profile", "posts"}, n \in 1..2 : resp[e][n] \in {"200", "429", "500"}) =>
        /\ trad.issued["profile"] = 2 <=> go.issued["profile"] = 2
        /\ trad.issued["posts"] = 2 <=> go.issued["posts"] = 2
        /\ trad.ret.kind = "return" <=> go.ret[2].t = "null"

----------------------------------------------------------------------------
(* A call of the monadic fetchUserData *)

\* ok(value) and err(error) of neverthrow
ok(value) == [isOk |-> TRUE, value |-> value]
err(error) == [isOk |-> FALSE, error |-> error]

\* a ResultAsync that has not resolved
Unresolved == [isOk |-> FALSE, error |-> Nothing]

\* what the ResultAsync of fetchProfile or fetchUserPosts resolves to when
\* request number n of endpoint e has ended
fetchResult(e, n) ==
    IF resp[e][n] = "200"
    THEN ok(IF e = "profile" THEN JStr(BodyOf(e, "200", n)) ELSE JArr(<<BodyOf(e, "200", n)>>))
    ELSE IF resp[e][n] = "no response"
    THEN err(ApiError("NetworkError", <<"String", FetchFailure.message>>))
    ELSE err(ApiError(IF resp[e][n] = "429" THEN "RateLimit" ELSE "NetworkError",
                      BodyOf(e, resp[e][n], n)))

\* ResultAsync.combine([profileResult, postsResult]).map(...): the first error
\* in the order of the list, else the data
combine(r) ==
    IF ~r["profile"].isOk THEN r["profile"]
    ELSE IF ~r["posts"].isOk THEN r["posts"]
    ELSE ok(UserData(UserId, r["profile"].value, r["posts"].value))

\* the call: fetchProfile(userId) and fetchUserPosts(userId) each start their
\* request, and withRetry attaches its callback to each ResultAsync
MonCall ==
    /\ mon.pc = "start"
    /\ mon' = [mon EXCEPT !.pc = "running",
                          !.part = [e \in Endpoints |-> "pending"],
                          !.issued = [e \in Endpoints |-> @[e] + 1]]
    /\ UNCHANGED <<resp, go, trad>>
    /\ UNCHANGED <<compVars, buildVars, region, styleVars, linkVars>>

\* the ResultAsync ra of endpoint e resolves and orElse runs its callback on an
\* error: a rate limit starts the delay, any other error is handed on as err(error)
MonSettle(e) ==
    /\ mon.pc = "running" /\ mon.part[e] = "pending"
    /\ LET r == fetchResult(e, mon.issued[e])
       IN  mon' = IF r.isOk
                  THEN [mon EXCEPT !.ra[e] = r, !.part[e] = "done", !.out[e] = r]
                  ELSE IF r.error.type = "RateLimit"
                  THEN [mon EXCEPT !.ra[e] = r, !.part[e] = "delay"]
                  ELSE [mon EXCEPT !.ra[e] = r, !.part[e] = "done", !.out[e] = err(r.error)]
    /\ UNCHANGED <<resp, go, trad>>
    /\ UNCHANGED <<compVars, buildVars, region, styleVars, linkVars>>

\* delay(1000).then(() => ra): the delay is over and the callback hands back
\* ra, the ResultAsync that has already resolved; no request is made
MonDelayOver(e) ==
    /\ mon.pc = "running" /\ mon.part[e] = "delay"
    /\ mon' = [mon EXCEPT !.part[e] = "done", !.out[e] = mon.ra[e]]
    /\ UNCHANGED <<resp, go, trad>>
    /\ UNCHANGED <<compVars, buildVars, region, styleVars, linkVars>>

\* both results of withRetry have resolved: the combined result resolves
MonCombine ==
    /\ mon.pc = "running" /\ \A e \in Endpoints : mon.part[e] = "done"
    /\ mon' = [mon EXCEPT !.pc = "done", !.ret = combine(mon.out)]
    /\ UNCHANGED <<resp, go, trad>>
    /\ UNCHANGED <<compVars, buildVars, region, styleVars, linkVars>>

InitMonadic ==
    /\ InitComponents /\ InitBuild /\ StyleIdle /\ LinksIdle
    /\ cfg = SiteCfg
    /\ resp \in [Endpoints -> [1..2 -> Answers]]
    /\ go = <<>> /\ trad = <<>>
    /\ mon = [pc |-> "start",
              part |-> [e \in Endpoints |-> "unborn"],
              ra |-> [e \in Endpoints |-> Unresolved],
              out |-> [e \in Endpoints |-> Unresolved],
              issued |-> [e \in Endpoints |-> 0],
              ret |-> Unresolved]

NextMonadic ==
    \/ MonCall
    \/ \E e \in Endpoints : MonSettle(e)
    \/ \E e \in Endpoints : MonDelayOver(e)
    \/ MonCombine

SpecMonadic == InitMonadic /\ [][NextMonadic]_vars

\* C22: when the request wrapped by withRetry fails with a RateLimit error it
\* is attempted again after the delay, so that a successful second attempt
\* makes the result of withRetry, and of fetchUserData when both parts succeed,
\* a success; when it fails with any other error, that error is returned
\* unchanged and nothing is attempted again.
C22_WithRetryRetries ==
    mon.pc = "done" =>
        /\ \A e \in {"profile", "posts"} :
              /\ resp[e][1] = "200" => mon.issued[e] = 1 /\ mon.out[e].isOk
              /\ resp[e][1] = "429" =>
                    /\ mon.issued[e] = 2
                    /\ resp[e][2] = "200" <=> mon.out[e].isOk
              /\ resp[e][1] \in {"500", "no response"} =>
                    /\ mon.issued[e] = 1
                    /\ ~mon.out[e].isOk
                    /\ mon.out[e].error = mon.ra[e].error
                    /\ mon.out[e].error.type = "NetworkError"
        /\ (\A e \in {"profile", "posts"} : mon.out[e].isOk) <=> mon.ret.isOk

====
